---- MODULE Spec2Model ----
(***************************************************************************)
(* A model of system-monitor: the command line (args.rs), the dispatch in  *)
(* run (run.rs), the sampler collect_metrics and the formatter             *)
(* (MetricsSnapshot::format, format_bytes, Display/Debug output) of lib.rs.*)
(*                                                                         *)
(* Byte counts are u64 and format_bytes computes in f64, so both exceed    *)
(* the integers TLC evaluates.  Naturals are therefore kept as sequences  *)
(* of 15-bit limbs (least significant first, no leading zero limb), and an *)
(* f64 is kept as a pair [m, sh] standing for the real number m / 2^sh     *)
(* with m < 2^53 + 1, rounded to nearest, ties to even, after every        *)
(* operation, as IEEE-754 binary64 does.                                   *)
(***************************************************************************)
EXTENDS Integers, Sequences, FiniteSets, TLC

\* ------------------------------------------------------------------------
\* Naturals of any size
\* ------------------------------------------------------------------------

Base == 2^15

RECURSIVE BigFromInt(_)
BigFromInt(n) ==
    IF n = 0 THEN <<>> ELSE <<n % Base>> \o BigFromInt(n \div Base)

RECURSIVE BigToInt(_)
BigToInt(a) ==
    IF a = <<>> THEN 0 ELSE Head(a) + Base * BigToInt(Tail(a))

\* a * m + carry, for 0 <= m <= Base
RECURSIVE BigMulSmall(_, _, _)
BigMulSmall(a, m, carry) ==
    IF a = <<>> THEN BigFromInt(carry)
    ELSE IF m = 0 THEN BigFromInt(carry)
    ELSE LET t == Head(a) * m + carry
         IN  <<t % Base>> \o BigMulSmall(Tail(a), m, t \div Base)

RECURSIVE BigAddSmall(_, _)
BigAddSmall(a, n) ==
    IF n = 0 THEN a
    ELSE IF a = <<>> THEN BigFromInt(n)
    ELSE LET t == Head(a) + n
         IN  <<t % Base>> \o BigAddSmall(Tail(a), t \div Base)

RECURSIVE BigAdd(_, _, _)
BigAdd(a, b, carry) ==
    IF a = <<>> THEN BigAddSmall(b, carry)
    ELSE IF b = <<>> THEN BigAddSmall(a, carry)
    ELSE LET t == Head(a) + Head(b) + carry
         IN  <<t % Base>> \o BigAdd(Tail(a), Tail(b), t \div Base)

RECURSIVE BigNorm(_)
BigNorm(a) ==
    IF a = <<>> THEN <<>>
    ELSE IF a[Len(a)] = 0 THEN BigNorm(SubSeq(a, 1, Len(a) - 1))
    ELSE a

\* a - n for a >= n, 0 <= n < Base
RECURSIVE BigSubRaw(_, _)
BigSubRaw(a, n) ==
    IF n = 0 THEN a
    ELSE IF Head(a) >= n THEN <<Head(a) - n>> \o Tail(a)
    ELSE <<Head(a) + Base - n>> \o BigSubRaw(Tail(a), 1)

BigSubSmall(a, n) == BigNorm(BigSubRaw(a, n))

\* quotient and remainder of a by m, for 1 <= m <= Base
RECURSIVE BigDivRem(_, _)
BigDivRem(a, m) ==
    IF a = <<>> THEN [q |-> <<>>, r |-> 0]
    ELSE LET hi  == BigDivRem(Tail(a), m)
             cur == hi.r * Base + Head(a)
         IN  [q |-> IF hi.q = <<>> /\ cur \div m = 0 THEN <<>>
                    ELSE <<cur \div m>> \o hi.q,
              r |-> cur % m]

\* -1, 0, 1 as a < b, a = b, a > b; i runs from the top limb down
RECURSIVE BigCmpFrom(_, _, _)
BigCmpFrom(a, b, i) ==
    IF i = 0 THEN 0
    ELSE IF a[i] < b[i] THEN -1
    ELSE IF a[i] > b[i] THEN 1
    ELSE BigCmpFrom(a, b, i - 1)

BigCmp(a, b) ==
    IF Len(a) < Len(b) THEN -1
    ELSE IF Len(a) > Len(b) THEN 1
    ELSE BigCmpFrom(a, b, Len(a))

BigGe(a, b) == BigCmp(a, b) >= 0
BigLt(a, b) == BigCmp(a, b) < 0

RECURSIVE BitLenInt(_)
BitLenInt(n) == IF n = 0 THEN 0 ELSE 1 + BitLenInt(n \div 2)

BigBitLen(a) ==
    IF a = <<>> THEN 0 ELSE 15 * (Len(a) - 1) + BitLenInt(a[Len(a)])

BigIsOdd(a) == a # <<>> /\ a[1] % 2 = 1

\* a * 2^n
BigShl(a, n) ==
    IF a = <<>> THEN <<>>
    ELSE [i \in 1..(n \div 15) |-> 0] \o BigMulSmall(a, 2^(n % 15), 0)

\* floor(a / 2^n), and whether a bit that was shifted out was set
BigShr(a, n) ==
    LET k    == n \div 15
        low  == SubSeq(a, 1, IF k < Len(a) THEN k ELSE Len(a))
        high == IF k < Len(a) THEN SubSeq(a, k + 1, Len(a)) ELSE <<>>
        d    == BigDivRem(high, 2^(n % 15))
    IN  [q |-> d.q,
         sticky |-> d.r # 0 \/ \E i \in 1..Len(low) : low[i] # 0]

RECURSIVE BigMulPow10(_, _)
BigMulPow10(a, j) ==
    IF j = 0 THEN a ELSE BigMulPow10(BigMulSmall(a, 10, 0), j - 1)

\* the natural written in decimal as groups of three digits, first group first
RECURSIVE BigFromDec(_)
BigFromDec(g) ==
    IF g = <<>> THEN <<>>
    ELSE BigAddSmall(BigMulSmall(BigFromDec(SubSeq(g, 1, Len(g) - 1)), 1000, 0),
                     g[Len(g)])

\* 1000^0 .. 1000^6
Pow1000 == [k \in 0..6 |-> BigMulPow10(<<1>>, 3 * k)]

\* ------------------------------------------------------------------------
\* f64 arithmetic: a value is [m, sh], the real m / 2^sh
\* ------------------------------------------------------------------------

\* (a + f) / 2^sh, where 0 <= f < 1 and f # 0 iff sticky, rounded to 53
\* significant bits, to nearest and ties to even
F64Round(a, sticky, sh) ==
    LET len == BigBitLen(a)
    IN  IF len <= 53 THEN [m |-> a, sh |-> sh]
        ELSE LET r    == len - 53
                 s    == BigShr(a, r - 1)
                 half == BigIsOdd(s.q)
                 m0   == BigDivRem(s.q, 2).q
                 up   == half /\ (s.sticky \/ sticky \/ BigIsOdd(m0))
             IN  [m |-> IF up THEN BigAddSmall(m0, 1) ELSE m0, sh |-> sh - r]

\* `bytes as f64` (lib.rs:119): exact below 2^53, rounded above
U64ToF64(b) == F64Round(b, FALSE, 0)

\* floor(a / (divs[1] * ... * divs[n])) and whether the division left a rest
RECURSIVE BigDivAll(_, _)
BigDivAll(a, divs) ==
    IF divs = <<>> THEN [q |-> a, sticky |-> FALSE]
    ELSE LET d    == BigDivRem(a, Head(divs))
             rest == BigDivAll(d.q, Tail(divs))
         IN  [q |-> rest.q, sticky |-> rest.sticky \/ d.r # 0]

\* x / (divs[1] * ... * divs[n]) in f64, each divisor in 1..Base and the
\* product a value f64 holds exactly: the quotient is taken to at least 54
\* bits and then rounded once
F64Div(x, divs) ==
    IF x.m = <<>> \/ divs = <<>> THEN x
    ELSE LET p == 128 - BigBitLen(x.m)
             d == BigDivAll(BigShl(x.m, p), divs)
         IN  F64Round(d.q, d.sticky, x.sh + p)

\* x * c in f64, for an integer 0 <= c <= Base
F64MulSmall(x, c) == F64Round(BigMulSmall(x.m, c, 0), FALSE, x.sh)

\* x >= c, for an integer c >= 0
F64GeInt(x, c) ==
    IF x.sh >= 0 THEN BigGe(x.m, BigShl(BigFromInt(c), x.sh))
    ELSE BigGe(BigShl(x.m, -x.sh), BigFromInt(c))

\* The digits `{:.d}` prints for x, as the integer round(x * 10^d): Rust
\* prints the decimal expansion of the exact binary value, rounded to d
\* places, to nearest and ties to even.
F64ToFixed(x, d) ==
    LET p == BigMulPow10(x.m, d)
    IN  IF x.sh <= 0 THEN BigToInt(BigShl(p, -x.sh))
        ELSE LET s    == BigShr(p, x.sh - 1)
                 half == BigIsOdd(s.q)
                 t0   == BigDivRem(s.q, 2).q
                 up   == half /\ (s.sticky \/ BigIsOdd(t0))
             IN  BigToInt(t0) + (IF up THEN 1 ELSE 0)

\* ------------------------------------------------------------------------
\* format_bytes (lib.rs:112-133)
\* ------------------------------------------------------------------------

UNITS == <<"B", "KB", "MB", "GB", "TB", "PB">>

\* Log10Thresholds[k] is the least f64 x with
\* floor(log10(x) / log10(1000)) >= k.  log10(1000.0) is 3.0 and
\* log10(10^(3k)) is 3k exactly, so the threshold is 1000^k unless log10 of
\* a smaller value already rounds up to 3k: the spacing of f64 near 15 is
\* 2^-49, and log10(10^15 - 1) and log10(10^15 - 2) lie within half of it
\* below 15, so both give 15.0; near 18 every f64 from 10^18 - 4096 on
\* gives 18.0.  Below 10^12 the logarithm of 1000^k - 1 is more than 10^-13
\* under 3k and no rounding reaches it.
Log10Thresholds ==
    << BigFromDec(<<1, 0>>),
       BigFromDec(<<1, 0, 0>>),
       BigFromDec(<<1, 0, 0, 0>>),
       BigFromDec(<<1, 0, 0, 0, 0>>),
       BigFromDec(<<999, 999, 999, 999, 998>>),
       BigFromDec(<<999, 999, 999, 999, 995, 904>>) >>

\* x as a natural, for an f64 that holds an integer
F64ToBig(x) == IF x.sh <= 0 THEN BigShl(x.m, -x.sh) ELSE BigShr(x.m, x.sh).q

\* (bytes_f.log10() / 1000_f64.log10()).floor() as usize (lib.rs:120)
RawExponent(bf) ==
    LET b == F64ToBig(bf)
    IN  Cardinality({k \in 1..Len(Log10Thresholds) : BigGe(b, Log10Thresholds[k])})

Min(a, b) == IF a < b THEN a ELSE b

\* exponent.min(UNITS.len() - 1) (lib.rs:121)
Exponent(bf) == Min(RawExponent(bf), Len(UNITS) - 1)

\* a slip: the value is scaled by the exponent as computed, the unit is
\* looked up with the clamped one
ScaledValueUnclamped(bf) == F64Div(bf, [i \in 1..RawExponent(bf) |-> 1000])

\* bytes_f / 1000_f64.powi(exponent as i32) (lib.rs:123); 1000^e is exact
\* in f64 for e <= 6
ScaledValue(bf) == F64Div(bf, [i \in 1..Exponent(bf) |-> 1000])

\* x > c, for an integer c >= 0
F64GtInt(x, c) ==
    IF x.sh >= 0 THEN BigCmp(x.m, BigShl(BigFromInt(c), x.sh)) > 0
    ELSE BigCmp(BigShl(x.m, -x.sh), BigFromInt(c)) > 0

\* a slip: the branches compare with > where the source has >=
PrecisionStrict(value) ==
    IF F64GtInt(value, 100) THEN 0
    ELSE IF F64GtInt(value, 10) THEN 1
    ELSE 2

\* the precision the three branches of lib.rs:126-132 print with
Precision(value) ==
    IF F64GeInt(value, 100) THEN 0
    ELSE IF F64GeInt(value, 10) THEN 1
    ELSE 2

\* format_bytes(bytes): the text "<num with dec decimals> <unit>" as
\* [num, dec, unit], num being the printed digits without the point
\* ("1.50 KB" is [num |-> 150, dec |-> 2, unit |-> "KB"])
FormatBytes(bytes) ==
    IF bytes = <<>> THEN [num |-> 0, dec |-> 0, unit |-> "B"]
    ELSE LET bytes_f == U64ToF64(bytes)
             value   == ScaledValue(bytes_f)
             dec     == Precision(value)
         IN  [num  |-> F64ToFixed(value, dec),
              dec  |-> dec,
              unit |-> UNITS[Exponent(bytes_f) + 1]]

\* ------------------------------------------------------------------------
\* MetricsSnapshot::format and the two renderings of FormattedMetrics
\* ------------------------------------------------------------------------

\* format!("{:.1}%", cpu) for an f32 of q quarters of a percent (q / 4 is
\* exact in f32): the printed tenths
FormatCpu(q) == [kind |-> "num", tenths |-> F64ToFixed([m |-> BigFromInt(q), sh |-> 2], 1)]

\* format!("{:.1}%", (used as f64 / total as f64) * 100.0) (lib.rs:85-88),
\* for total <= Base.  Dividing by 0.0 raises nothing in f64: 0/0 is NaN and
\* x/0 is infinity, which `{:.1}` prints as "NaN" and "inf".
FormatMemPercent(used, total) ==
    IF total = 0
    THEN [kind |-> IF used = 0 THEN "NaN" ELSE "inf", tenths |-> 0]
    ELSE [kind |-> "num",
          tenths |-> F64ToFixed(
                        F64MulSmall(F64Div(U64ToF64(BigFromInt(used)), <<total>>), 100),
                        1)]

\* MetricsSnapshot::format (lib.rs:80-94)
Format(snap) ==
    [cpu_usage            |-> FormatCpu(snap.cpu_usage_percent),
     memory_used          |-> FormatBytes(BigFromInt(snap.memory_used_bytes)),
     memory_total         |-> FormatBytes(BigFromInt(snap.memory_total_bytes)),
     memory_usage_percent |-> FormatMemPercent(snap.memory_used_bytes,
                                               snap.memory_total_bytes),
     disk_read            |-> FormatBytes(BigFromInt(snap.disk_read_bytes)),
     disk_write           |-> FormatBytes(BigFromInt(snap.disk_write_bytes)),
     net_rx               |-> FormatBytes(BigFromInt(snap.net_rx_bytes)),
     net_tx               |-> FormatBytes(BigFromInt(snap.net_tx_bytes))]

\* impl fmt::Display for FormattedMetrics (lib.rs:97-109): a heading and
\* six labelled lines
DisplayLines(fm) ==
    << [label |-> "System Metrics:", text |-> <<>>],
       [label |-> "CPU Usage:",      text |-> <<fm.cpu_usage>>],
       [label |-> "Memory:",         text |-> <<fm.memory_used, fm.memory_total,
                                                fm.memory_usage_percent>>],
       [label |-> "Disk Read:",      text |-> <<fm.disk_read>>],
       [label |-> "Disk Write:",     text |-> <<fm.disk_write>>],
       [label |-> "Network RX:",     text |-> <<fm.net_rx>>],
       [label |-> "Network TX:",     text |-> <<fm.net_tx>>] >>

\* #[derive(Debug)] on FormattedMetrics (lib.rs:67-77) printed with "{:?}":
\* the struct's name and its eight fields in declaration order, on one line
DebugLines(fm) ==
    << [label |-> "FormattedMetrics {",
        text  |-> <<fm.cpu_usage, fm.memory_used, fm.memory_total,
                    fm.memory_usage_percent, fm.disk_read, fm.disk_write,
                    fm.net_rx, fm.net_tx>>] >>

\* println!("{:?}", collect_metrics().format()) (lib.rs:168)
PrintedLines(snap) == DebugLines(Format(snap))

\* ------------------------------------------------------------------------
\* The command line (args.rs)
\* ------------------------------------------------------------------------

MaxInterval == 1
DefaultInterval == 1
ClapUsageExit == 2

\* --interval is absent (<<>>) or given with a value (<<n>>)
IntervalArgs == {<<>>} \cup {<<n>> : n \in 0..MaxInterval}

CommandLines == [live : BOOLEAN, log : BOOLEAN, interval : IntervalArgs]

Unparsed == [parsed |-> FALSE, live |-> FALSE, log |-> FALSE, interval |-> 0]

\* a slip: the group lets several of its arguments be given
AcceptsAny(av) == TRUE

\* ArgGroup::new("mode").args(["live", "log"]).multiple(false)
\* (args.rs:9-15): at most one argument of the group may be given
Accepts(av) == ~(av.live /\ av.log)

\* CliArgs::parse (args.rs:16-32) on an accepted command line
Parse(av) ==
    [parsed   |-> TRUE,
     live     |-> av.live,
     log      |-> av.log,
     interval |-> IF av.interval = <<>> THEN DefaultInterval ELSE av.interval[1]]

\* a slip: || where the source has &&
ShouldPrintOnceEither(a) == ~a.live \/ ~a.log

\* the guard of run (run.rs:9)
ShouldPrintOnce(a) == ~a.live /\ ~a.log

\* a slip: the wait follows --interval
SleepMillisFromInterval(a) == a.interval * 1000

\* Duration::from_millis(5000) (lib.rs:28)
SleepMillis(a) == 5000

\* ------------------------------------------------------------------------
\* The host the sampler reads, through sysinfo
\* ------------------------------------------------------------------------

MaxDelta == 1

DiskList == <<"sda", "sdb">>
InterfaceList == <<"lo", "eth0">>
DiskNames == {DiskList[i] : i \in 1..Len(DiskList)}
InterfaceNames == {InterfaceList[i] : i \in 1..Len(InterfaceList)}

\* (used, total) memory in bytes the host may report; total is 0 where the
\* host's memory table cannot be read
MemReadings == {<<0, 0>>, <<7, 0>>, <<500, 1000>>, <<1, 3>>}

\* global CPU load over an interval, in quarters of a percent
CpuReadings == {0, 201}

\* bytes moved on each device during the wait; the loopback interface
\* receives what it transmits
DiskActivity == [DiskNames -> [read : 0..MaxDelta, written : 0..MaxDelta]]
NetActivity ==
    {n \in [InterfaceNames -> [rx : 0..MaxDelta, tx : 0..MaxDelta]] :
        n["lo"].rx = n["lo"].tx}

VARIABLES
    argv,       \* the command line of the invocation
    args,       \* CliArgs, once parsed
    pc,         \* the statement the program is at
    os,         \* the host: CPU load, memory, cumulative device counters
    system,     \* sysinfo::System of collect_metrics
    disks,      \* sysinfo::Disks
    networks,   \* sysinfo::Networks
    locals,     \* the let-bindings of collect_metrics
    slept,      \* milliseconds spent in thread::sleep
    events,     \* the sysinfo and sleep calls made so far, in order
    snapshots,  \* the MetricsSnapshot values returned so far
    stdout,     \* lines written to standard output
    exitCode,   \* <<>> while the process runs, <<code>> once it has exited
    fmt         \* format_bytes called on its own: arguments and results

vars == <<argv, args, pc, os, system, disks, networks, locals, slept, events,
          snapshots, stdout, exitCode, fmt>>

Unset == 0 - 1

\* the statements of print_once and collect_metrics in program order
\* (lib.rs:18-64, 168-170)
ProgramOrder ==
    <<"new", "refresh1", "sleep", "refresh2", "read_cpu", "read_mem",
      "sum_disks", "sum_nets", "build", "print", "return">>

\* a slip: the CPU usage is read before the second refresh
EarlyReadOrder ==
    <<"new", "refresh1", "sleep", "read_cpu", "refresh2", "read_mem",
      "sum_disks", "sum_nets", "build", "print", "return">>

NextPcReadEarly(p) ==
    LET i == CHOOSE j \in 1..Len(EarlyReadOrder) : EarlyReadOrder[j] = p
    IN  EarlyReadOrder[i + 1]

\* the statement that follows p
NextPc(p) ==
    LET i == CHOOSE j \in 1..Len(ProgramOrder) : ProgramOrder[j] = p
    IN  ProgramOrder[i + 1]

ZeroDisks == [d \in DiskNames |-> [read |-> 0, written |-> 0]]
ZeroNets  == [n \in InterfaceNames |-> [rx |-> 0, tx |-> 0]]

NoSystem == [refreshes |-> Unset, cpu |-> 0, mem_used |-> 0, mem_total |-> 0]
NoDisks ==
    [refreshes |-> Unset,
     dev |-> [d \in DiskNames |->
                [last_read |-> 0, last_written |-> 0, read |-> 0, written |-> 0]]]
NoNetworks ==
    [refreshes |-> Unset,
     dev |-> [n \in InterfaceNames |->
                [last_rx |-> 0, last_tx |-> 0, rx |-> 0, tx |-> 0]]]

NoLocals ==
    [cpu_usage |-> Unset, memory_used |-> Unset, memory_total |-> Unset,
     disk_read |-> Unset, disk_write |-> Unset, rx_bytes |-> Unset,
     tx_bytes |-> Unset]

NoText == [num |-> 0, dec |-> 0, unit |-> ""]
FmtIdle == [pc |-> "idle", b1 |-> <<>>, b2 |-> <<>>, out1 |-> NoText, out2 |-> NoText]

Init ==
    /\ argv \in CommandLines
    /\ args = Unparsed
    /\ pc = "parse"
    /\ \E mem \in MemReadings :
          os = [cpu |-> 0, mem |-> mem, disk |-> ZeroDisks, net |-> ZeroNets]
    /\ system = NoSystem
    /\ disks = NoDisks
    /\ networks = NoNetworks
    /\ locals = NoLocals
    /\ slept = 0
    /\ events = <<>>
    /\ snapshots = <<>>
    /\ stdout = <<>>
    /\ exitCode = <<>>
    /\ fmt = FmtIdle

\* ------------------------------------------------------------------------
\* run (run.rs:6-14) and main (main.rs:7-11)
\* ------------------------------------------------------------------------

\* let args = parse_args() (run.rs:7), but for the value of args: clap
\* prints a usage error to standard error and exits the process with code 2
\* when the command line is not accepted
ParseArgsStep(av) ==
    /\ pc = "parse"
    /\ IF Accepts(av)
       THEN pc' = "dispatch" /\ exitCode' = exitCode
       ELSE pc' = "exited" /\ exitCode' = <<ClapUsageExit>>
    /\ UNCHANGED <<argv, os, system, disks, networks, locals, slept, events,
                   snapshots, stdout, fmt>>

ParseArgs ==
    /\ ParseArgsStep(argv)
    /\ args' = IF Accepts(argv) THEN Parse(argv) ELSE args

\* if !args.live && !args.log { print_once()?; } Ok(()) (run.rs:9-13):
\* with a mode flag run returns Ok at once and main exits with code 0
Dispatch(a) ==
    /\ pc = "dispatch"
    /\ IF ShouldPrintOnce(a)
       THEN pc' = "new" /\ exitCode' = exitCode
       ELSE pc' = "exited" /\ exitCode' = <<0>>
    /\ UNCHANGED <<argv, args, os, system, disks, networks, locals, slept,
                   events, snapshots, stdout, fmt>>

\* ------------------------------------------------------------------------
\* collect_metrics (lib.rs:17-65)
\* ------------------------------------------------------------------------

Call(name, obj) == [call |-> name, refreshes |-> obj.refreshes]

\* System::new(), Disks::new_with_refreshed_list(),
\* Networks::new_with_refreshed_list() (lib.rs:18-20): the lists are read
\* with the counters of the moment, nothing is measured yet
New ==
    /\ pc = "new"
    /\ system' = [NoSystem EXCEPT !.refreshes = 0]
    /\ disks' = [refreshes |-> 0,
                 dev |-> [d \in DiskNames |->
                            [last_read    |-> os.disk[d].read,
                             last_written |-> os.disk[d].written,
                             read |-> 0, written |-> 0]]]
    /\ networks' = [refreshes |-> 0,
                    dev |-> [n \in InterfaceNames |->
                               [last_rx |-> os.net[n].rx,
                                last_tx |-> os.net[n].tx,
                                rx |-> 0, tx |-> 0]]]
    /\ events' = events \o <<Call("System::new", NoSystem),
                             Call("Disks::new_with_refreshed_list", NoDisks),
                             Call("Networks::new_with_refreshed_list", NoNetworks)>>
    /\ pc' = NextPc(pc)
    /\ UNCHANGED <<argv, args, os, locals, slept, snapshots, stdout, exitCode, fmt>>

\* system.refresh_all(): memory as it is now, and the CPU load since the
\* refresh before (0.0 when there was none)
RefreshSystem(sys, o) ==
    [refreshes |-> sys.refreshes + 1,
     cpu       |-> IF sys.refreshes = 0 THEN 0 ELSE o.cpu,
     mem_used  |-> o.mem[1],
     mem_total |-> o.mem[2]]

\* disks.refresh(false): each disk's usage becomes the bytes since the
\* refresh before
RefreshDisks(dk, o) ==
    [refreshes |-> dk.refreshes + 1,
     dev |-> [d \in DiskNames |->
                [last_read    |-> o.disk[d].read,
                 last_written |-> o.disk[d].written,
                 read    |-> o.disk[d].read - dk.dev[d].last_read,
                 written |-> o.disk[d].written - dk.dev[d].last_written]]]

\* networks.refresh(false): likewise for each interface
RefreshNetworks(nw, o) ==
    [refreshes |-> nw.refreshes + 1,
     dev |-> [n \in InterfaceNames |->
                [last_rx |-> o.net[n].rx,
                 last_tx |-> o.net[n].tx,
                 rx |-> o.net[n].rx - nw.dev[n].last_rx,
                 tx |-> o.net[n].tx - nw.dev[n].last_tx]]]

\* the three refreshes of lib.rs:23-25 and again of lib.rs:31-33
RefreshAll ==
    /\ system' = RefreshSystem(system, os)
    /\ disks' = RefreshDisks(disks, os)
    /\ networks' = RefreshNetworks(networks, os)
    /\ events' = events \o <<Call("system.refresh_all", system),
                             Call("disks.refresh", disks),
                             Call("networks.refresh", networks)>>
    /\ pc' = NextPc(pc)
    /\ UNCHANGED <<argv, args, os, locals, slept, snapshots, stdout, exitCode, fmt>>

\* First refresh to establish baseline (lib.rs:23-25)
Refresh1 == pc = "refresh1" /\ RefreshAll

\* what the host does while the program waits: load, memory in use and the
\* cumulative counters of every device move on
HostWorks ==
    \E cpu \in CpuReadings, mem \in MemReadings,
       da \in DiskActivity, na \in NetActivity :
       os' = [cpu  |-> cpu,
              mem  |-> mem,
              disk |-> [d \in DiskNames |->
                          [read    |-> os.disk[d].read + da[d].read,
                           written |-> os.disk[d].written + da[d].written]],
              net  |-> [n \in InterfaceNames |->
                          [rx |-> os.net[n].rx + na[n].rx,
                           tx |-> os.net[n].tx + na[n].tx]]]

\* std::thread::sleep(Duration::from_millis(5000)) (lib.rs:28), but for
\* what the host does meanwhile
SleepStep(a) ==
    /\ pc = "sleep"
    /\ slept' = slept + SleepMillis(a)
    /\ events' = Append(events, [call |-> "thread::sleep", refreshes |-> Unset])
    /\ pc' = NextPc(pc)
    /\ UNCHANGED <<argv, args, system, disks, networks, locals, snapshots,
                   stdout, exitCode, fmt>>

Sleep(a) == SleepStep(a) /\ HostWorks

\* Second refresh to get deltas (lib.rs:31-33)
Refresh2 == pc = "refresh2" /\ RefreshAll

\* let cpu_usage = system.global_cpu_usage() (lib.rs:35)
ReadCpu ==
    /\ pc = "read_cpu"
    /\ locals' = [locals EXCEPT !.cpu_usage = system.cpu]
    /\ events' = Append(events, Call("system.global_cpu_usage", system))
    /\ pc' = NextPc(pc)
    /\ UNCHANGED <<argv, args, os, system, disks, networks, slept, snapshots,
                   stdout, exitCode, fmt>>

\* system.used_memory(), system.total_memory() (lib.rs:38-39)
ReadMem ==
    /\ pc = "read_mem"
    /\ locals' = [locals EXCEPT !.memory_used = system.mem_used,
                                !.memory_total = system.mem_total]
    /\ events' = events \o <<Call("system.used_memory", system),
                             Call("system.total_memory", system)>>
    /\ pc' = NextPc(pc)
    /\ UNCHANGED <<argv, args, os, system, disks, networks, slept, snapshots,
                   stdout, exitCode, fmt>>

\* .fold((0, 0), |(read, write), usage| ...) over the disks (lib.rs:42-47)
RECURSIVE FoldDisks(_, _, _)
FoldDisks(list, dev, acc) ==
    IF list = <<>> THEN acc
    ELSE FoldDisks(Tail(list), dev,
                   <<acc[1] + dev[Head(list)].read,
                     acc[2] + dev[Head(list)].written>>)

\* .fold((0, 0), |(rx, tx), (_, data)| ...) over the interfaces (lib.rs:50-54)
RECURSIVE FoldNetworks(_, _, _)
FoldNetworks(list, dev, acc) ==
    IF list = <<>> THEN acc
    ELSE FoldNetworks(Tail(list), dev,
                      <<acc[1] + dev[Head(list)].rx,
                        acc[2] + dev[Head(list)].tx>>)

SumDisks ==
    /\ pc = "sum_disks"
    /\ LET sum == FoldDisks(DiskList, disks.dev, <<0, 0>>)
       IN  locals' = [locals EXCEPT !.disk_read = sum[1], !.disk_write = sum[2]]
    /\ events' = Append(events, Call("disk.usage", disks))
    /\ pc' = NextPc(pc)
    /\ UNCHANGED <<argv, args, os, system, disks, networks, slept, snapshots,
                   stdout, exitCode, fmt>>

SumNets ==
    /\ pc = "sum_nets"
    /\ LET sum == FoldNetworks(InterfaceList, networks.dev, <<0, 0>>)
       IN  locals' = [locals EXCEPT !.rx_bytes = sum[1], !.tx_bytes = sum[2]]
    /\ events' = Append(events, Call("data.received/transmitted", networks))
    /\ pc' = NextPc(pc)
    /\ UNCHANGED <<argv, args, os, system, disks, networks, slept, snapshots,
                   stdout, exitCode, fmt>>

\* MetricsSnapshot { ... } returned (lib.rs:56-64); system, disks and
\* networks are dropped
Build ==
    /\ pc = "build"
    /\ snapshots' = Append(snapshots,
          [cpu_usage_percent  |-> locals.cpu_usage,
           memory_used_bytes  |-> locals.memory_used,
           memory_total_bytes |-> locals.memory_total,
           disk_read_bytes    |-> locals.disk_read,
           disk_write_bytes   |-> locals.disk_write,
           net_rx_bytes       |-> locals.rx_bytes,
           net_tx_bytes       |-> locals.tx_bytes])
    /\ system' = NoSystem
    /\ disks' = NoDisks
    /\ networks' = NoNetworks
    /\ locals' = NoLocals
    /\ pc' = NextPc(pc)
    /\ UNCHANGED <<argv, args, os, slept, events, stdout, exitCode, fmt>>

\* ------------------------------------------------------------------------
\* print_once (lib.rs:167-171)
\* ------------------------------------------------------------------------

PrintOnce ==
    /\ pc = "print"
    /\ stdout' = stdout \o PrintedLines(snapshots[Len(snapshots)])
    /\ pc' = NextPc(pc)
    /\ UNCHANGED <<argv, args, os, system, disks, networks, locals, slept,
                   events, snapshots, exitCode, fmt>>

\* Ok(()) of print_once, of run and of main (lib.rs:170, run.rs:13,
\* main.rs:10): the process exits with code 0
Return ==
    /\ pc = "return"
    /\ pc' = "exited"
    /\ exitCode' = <<0>>
    /\ UNCHANGED <<argv, args, os, system, disks, networks, locals, slept,
                   events, snapshots, stdout, fmt>>

Next ==
    \/ ParseArgs
    \/ Dispatch(args)
    \/ New
    \/ Refresh1
    \/ Sleep(args)
    \/ Refresh2
    \/ ReadCpu
    \/ ReadMem
    \/ SumDisks
    \/ SumNets
    \/ Build
    \/ PrintOnce
    \/ Return

Spec == Init /\ [][Next]_vars

\* ------------------------------------------------------------------------
\* format_bytes called on its own, on one byte count and then on a larger
\* one
\* ------------------------------------------------------------------------

MaxCoeff == 5
MaxBelow == 3
MaxGap == 1
MaxPow10 == 19

\* u64::MAX
U64Max == BigFromDec(<<18, 446, 744, 73, 709, 551, 615>>)

\* byte counts at and just below c * 10^j
GridInputs ==
    {BigSubSmall(BigMulPow10(BigFromInt(t[1]), t[2]), t[3]) :
        t \in {u \in (1..MaxCoeff) \X (0..MaxPow10) \X (0..MaxBelow) :
                 LET top == BigMulPow10(BigFromInt(u[1]), u[2])
                 IN  BigGe(top, BigFromInt(u[3])) /\ BigGe(U64Max, top)}}

\* the byte counts of tests::test_format_bytes (lib.rs:150-158), counts
\* whose scaled value falls halfway between two printed values, and the
\* largest count
SpecialInputs ==
    { BigFromDec(<<1, 500>>), BigFromDec(<<1, 500, 0>>),
      BigFromDec(<<1, 500, 0, 0>>), BigFromDec(<<15, 0, 0, 0>>),
      BigFromDec(<<150, 0, 0, 0>>),
      BigFromDec(<<1, 5>>), BigFromDec(<<1, 15>>), BigFromDec(<<1, 125>>),
      BigFromDec(<<9, 995>>), BigFromDec(<<99, 950>>), BigFromDec(<<999, 500>>),
      BigFromDec(<<99, 999, 999, 999, 999, 991>>),
      BigFromDec(<<99, 999, 999, 999, 999, 992>>),
      U64Max }

FmtInputs == GridInputs \cup SpecialInputs

Gaps == {BigMulPow10(BigFromInt(g), e) : g \in 1..MaxGap, e \in 0..MaxPow10}

FmtInit ==
    /\ argv = [live |-> FALSE, log |-> FALSE, interval |-> <<>>]
    /\ args = Unparsed
    /\ pc = "idle"
    /\ os = [cpu |-> 0, mem |-> <<0, 0>>, disk |-> ZeroDisks, net |-> ZeroNets]
    /\ system = NoSystem
    /\ disks = NoDisks
    /\ networks = NoNetworks
    /\ locals = NoLocals
    /\ slept = 0
    /\ events = <<>>
    /\ snapshots = <<>>
    /\ stdout = <<>>
    /\ exitCode = <<>>
    /\ \E b \in FmtInputs : fmt = [FmtIdle EXCEPT !.pc = "first", !.b1 = b]

FmtUnchanged ==
    UNCHANGED <<argv, args, pc, os, system, disks, networks, locals, slept,
                events, snapshots, stdout, exitCode>>

FormatFirst ==
    /\ fmt.pc = "first"
    /\ fmt' = [fmt EXCEPT !.pc = "second", !.out1 = FormatBytes(fmt.b1)]
    /\ FmtUnchanged

PickSecond ==
    /\ fmt.pc = "second"
    /\ \E g \in Gaps :
          LET b == BigAdd(fmt.b1, g, 0)
          IN  /\ BigGe(U64Max, b)
              /\ fmt' = [fmt EXCEPT !.pc = "picked", !.b2 = b]
    /\ FmtUnchanged

FormatSecond ==
    /\ fmt.pc = "picked"
    /\ fmt' = [fmt EXCEPT !.pc = "done", !.out2 = FormatBytes(fmt.b2)]
    /\ FmtUnchanged

FmtNext == FormatFirst \/ PickSecond \/ FormatSecond

FmtSpec == FmtInit /\ [][FmtNext]_vars

\* ------------------------------------------------------------------------
\* The claims
\* ------------------------------------------------------------------------

\* the largest k in 0..5 with 1000^k <= b, in exact arithmetic
ExactTier(b) == Cardinality({k \in 1..5 : BigGe(b, Pow1000[k])})

UnitIndex(u) == CHOOSE k \in 0..5 : UNITS[k + 1] = u

\* the calls of format_bytes made so far, each as <<argument, result>>
FmtCalls ==
    (IF fmt.pc \in {"second", "picked", "done"} THEN {<<fmt.b1, fmt.out1>>} ELSE {})
    \cup (IF fmt.pc = "done" THEN {<<fmt.b2, fmt.out2>>} ELSE {})

\* C1: format_bytes(0) is "0 B", and for b > 0 the unit is that of the
\* largest tier k in 0..5 with 1000^k <= b, so that b / 1000^k is at least 1
\* and, for b < 10^18, below 1000.
C1_UnitIsLargestTier ==
    \A c \in FmtCalls :
        LET b == c[1]
            o == c[2]
            k == ExactTier(b)
        IN  IF b = <<>> THEN o = [num |-> 0, dec |-> 0, unit |-> "B"]
            ELSE /\ o.unit = UNITS[k + 1]
                 /\ BigGe(b, Pow1000[k])
                 /\ BigLt(b, Pow1000[6]) => BigLt(b, Pow1000[k + 1])

\* C2: for b > 0, with v = b / 1000^k the scaled value in the tier k that
\* format_bytes chose, the number is printed with no decimals when
\* v >= 100, one when 10 <= v < 100 and two when v < 10.
C2_DecimalsFollowScaledValue ==
    \A c \in FmtCalls :
        LET b == c[1]
            o == c[2]
            k == UnitIndex(o.unit)
        IN  b # <<>> =>
               o.dec = IF BigGe(b, BigMulSmall(Pow1000[k], 100, 0)) THEN 0
                       ELSE IF BigGe(b, BigMulSmall(Pow1000[k], 10, 0)) THEN 1
                       ELSE 2

\* C3, as stated: for b < 1000 the unit is "B" and the number printed is b
\* itself, with no fractional part.
C3_BytesShownWhole ==
    \A c \in FmtCalls :
        BigLt(c[1], Pow1000[1]) =>
            c[2] = [num |-> BigToInt(c[1]), dec |-> 0, unit |-> "B"]

\* C3, amended: for b < 1000 the unit is "B" and the number printed equals
\* b; it has no fractional part when b = 0 or b >= 100, one decimal (a 0)
\* when 10 <= b < 100 and two decimals (00) when 1 <= b < 10.
C3_BytesShownUnscaled ==
    \A c \in FmtCalls :
        BigLt(c[1], Pow1000[1]) =>
            LET n == BigToInt(c[1])
                d == IF n = 0 \/ n >= 100 THEN 0 ELSE IF n >= 10 THEN 1 ELSE 2
            IN  c[2] = [num |-> n * 10^d, dec |-> d, unit |-> "B"]

\* format_bytes(7) has returned "7.00 B"
C3_Witness ==
    /\ fmt.pc = "second"
    /\ fmt.b1 = <<7>>
    /\ fmt.out1 = [num |-> 700, dec |-> 2, unit |-> "B"]

\* the memory percentage of the line print_once wrote
PrintedMemPercent == stdout[1].text[4]

\* C4: formatting a snapshot whose memory_total_bytes is 0 yields a defined
\* sentinel for memory_usage_percent, never NaN or infinity; for a positive
\* total it is used / total * 100 to the nearest tenth.
C4_MemPercentDefined ==
    (pc \in {"return", "exited"} /\ Len(snapshots) = 1 /\ stdout # <<>>) =>
        LET s == snapshots[1]
            p == PrintedMemPercent
        IN  IF s.memory_total_bytes = 0
            THEN p.kind \notin {"NaN", "inf"}
            ELSE /\ p.kind = "num"
                 /\ 2 * (p.tenths * s.memory_total_bytes
                           - 1000 * s.memory_used_bytes) <= s.memory_total_bytes
                 /\ 2 * (1000 * s.memory_used_bytes
                           - p.tenths * s.memory_total_bytes) <= s.memory_total_bytes

C6_StdoutIsSixLineReport ==
    (pc \in {"return", "exited"} /\ Len(snapshots) = 1) =>
        LET report == DisplayLines(Format(snapshots[1]))
        IN  /\ Len(stdout) = 6
            /\ \A i \in 1..6 : stdout[i] = report[i + 1]
            /\ [i \in 1..6 |-> stdout[i].label] =
                  <<"CPU Usage:", "Memory:", "Disk Read:", "Disk Write:",
                    "Network RX:", "Network TX:">>

\* the printed number as an integer count of hundredths
Hundredths(o) == o.num * 10^(2 - o.dec)

\* C7: for b1 < b2 that format_bytes prints with the same unit, the number
\* printed for b1 is at most the number printed for b2.
C7_MonotoneWithinUnit ==
    (fmt.pc = "done" /\ BigLt(fmt.b1, fmt.b2) /\ fmt.out1.unit = fmt.out2.unit) =>
        Hundredths(fmt.out1) <= Hundredths(fmt.out2)

\* two counts of one unit on the two sides of the precision switch at 10
C7_Witness ==
    /\ fmt.pc = "done"
    /\ BigLt(fmt.b1, fmt.b2)
    /\ fmt.out1.unit = fmt.out2.unit
    /\ fmt.out1.dec = 2
    /\ fmt.out2.dec = 1

\* C8: with --live and --log both given the invocation is rejected while
\* the arguments are parsed: nothing is refreshed, waited for or printed,
\* and the run does not end with exit code 0.
C8_BothFlagsRejected ==
    (argv.live /\ argv.log) =>
        /\ pc \in {"parse", "exited"}
        /\ ~args.parsed
        /\ events = <<>>
        /\ slept = 0
        /\ snapshots = <<>>
        /\ stdout = <<>>
        /\ pc = "exited" => (exitCode # <<>> /\ exitCode # <<0>>)

\* a run with both flags has ended with clap's usage error
C8_Witness ==
    /\ argv.live /\ argv.log
    /\ pc = "exited"
    /\ exitCode = <<2>>

\* the calls of collect_metrics in the order C9 states
C9_Calls ==
    <<"System::new", "Disks::new_with_refreshed_list",
      "Networks::new_with_refreshed_list",
      "system.refresh_all", "disks.refresh", "networks.refresh",
      "thread::sleep",
      "system.refresh_all", "disks.refresh", "networks.refresh",
      "system.global_cpu_usage", "system.used_memory", "system.total_memory",
      "disk.usage", "data.received/transmitted">>

RECURSIVE SumAll(_, _, _)
SumAll(names, dev, field) ==
    IF names = {} THEN 0
    ELSE LET n == CHOOSE x \in names : TRUE
         IN  dev[n][field] + SumAll(names \ {n}, dev, field)

\* C9: collect_metrics refreshes the three sources, waits, refreshes them
\* again and only then reads; every value of the snapshot is read from an
\* object refreshed twice and is the host's value at the second refresh;
\* the call cannot stop before it has returned its one snapshot.
C9_RefreshWaitRefreshRead ==
    /\ Len(events) <= Len(C9_Calls)
    /\ \A i \in 1..Len(events) :
          /\ events[i].call = C9_Calls[i]
          /\ i \in 4..6 => events[i].refreshes = 0
          /\ i \in 8..10 => events[i].refreshes = 1
          /\ i >= 11 => events[i].refreshes = 2
    /\ Len(snapshots) <= 1
    /\ pc \in {"new", "refresh1", "sleep", "refresh2", "read_cpu", "read_mem",
               "sum_disks", "sum_nets", "build"} =>
          (snapshots = <<>> /\ ENABLED Next)
    /\ pc \in {"print", "return"} =>
          /\ Len(snapshots) = 1
          /\ [i \in 1..Len(events) |-> events[i].call] = C9_Calls
          /\ snapshots[1] =
                [cpu_usage_percent  |-> os.cpu,
                 memory_used_bytes  |-> os.mem[1],
                 memory_total_bytes |-> os.mem[2],
                 disk_read_bytes    |-> SumAll(DiskNames, os.disk, "read"),
                 disk_write_bytes   |-> SumAll(DiskNames, os.disk, "written"),
                 net_rx_bytes       |-> SumAll(InterfaceNames, os.net, "rx"),
                 net_tx_bytes       |-> SumAll(InterfaceNames, os.net, "tx")]

\* collect_metrics has returned a snapshot of a busy interval
C9_Witness ==
    /\ pc = "print"
    /\ Len(snapshots) = 1
    /\ snapshots[1].cpu_usage_percent > 0
    /\ snapshots[1].disk_read_bytes > 0
    /\ snapshots[1].net_tx_bytes > 0

====
